---- MODULE Spec2Model ----
(***************************************************************************)
(* Model of scripts/fetch-rss.js (Daily AI Pulse data backend).            *)
(*                                                                         *)
(* One process invocation ("run") walks the source registry, fetches each  *)
(* feed (primary URL, then the alternate), extracts the articles of the    *)
(* trailing window, loads data/articles.json, drops the new articles whose *)
(* URL is already stored, optionally rewrites the summaries through the    *)
(* text-generation API, keeps the stored articles of the last 30 days,     *)
(* sorts and writes the file.                                              *)
(*                                                                         *)
(* Time is counted in hours since an epoch.  A calendar date string        *)
(* YYYY-MM-DD is modelled by its day number: the strings compare (with <,  *)
(* >= and localeCompare) exactly as the day numbers do.                    *)
(* Texts (titles, summaries) are modelled by their origin and length.      *)
(* A request to a feed URL or to the text-generation API is sent in one    *)
(* step and settles in a later one; inFlight holds the outstanding ones.   *)
(***************************************************************************)
EXTENDS Integers, Sequences, FiniteSets, TLC

\* ---------------------------------------------------------------- bounds
MaxRuns == 2          \* process invocations in one behaviour
MaxItems == 1         \* entries in one fetched feed
MaxTicks == 1         \* clock advances inside one run
TickHours == 8        \* how far the clock advances in one step

\* ------------------------------------------------------ program constants
BeijingOffsetHours == 8    \* offset = 8 * 60 minutes
HoursPerDay == 24          \* toISOString().slice(0, 10): one date per 24 h
WindowDays == 7            \* dateOffset(-7)
RetentionDays == 30        \* cutoff.getDate() - 30
SummaryMin == 120          \* rawDesc.length <= 120
DescMax == 300             \* .slice(0, 300)
StartHour == 22            \* the schedule: 6:00 AM Beijing time is 22:00 UTC

\* The registry, abridged to its first two entries: a source with a primary
\* URL only and a source with a primary and an alternate URL.
NoUrl == ""
SOURCES ==
  << [name |-> "The AI Valley", rss |-> "theaivalley/feed", rssAlternate |-> NoUrl],
     [name |-> "The Information", rss |-> "theinformation/feed",
      rssAlternate |-> "rsshub/theinformation"] >>

\* ------------------------------------------------------------ date helpers
toBeijingDateStr(t) == (t + BeijingOffsetHours) \div HoursPerDay

todayStr(now) == toBeijingDateStr(now)

\* d.setDate(d.getDate() + days) keeps the time of day and moves the calendar
\* date: with a fixed-offset process timezone the instant moves by days * 24 h.
dateOffset(now, days) == toBeijingDateStr(now + days * HoursPerDay)

\* A feed date value is absent ("none"), text that new Date() cannot parse
\* ("bad": toISOString throws RangeError, caught) or an instant ("ts").
toDateStr(now, dateVal) ==
  IF dateVal.kind = "none" THEN todayStr(now)
  ELSE IF dateVal.kind = "bad" THEN todayStr(now)
  ELSE toBeijingDateStr(dateVal.t)

\* cutoff.toISOString().slice(0, 10): the UTC calendar date
toISODateStr(t) == t \div HoursPerDay

Min(a, b) == IF a < b THEN a ELSE b

\* ------------------------------------------------------------- extraction
\* An entry of a feed: its pubDate, published, updated and dc:date values,
\* title and link after stripHtml / link resolution ("" = empty), desc = length
\* of the stripped description.
\* urls with the primary URL listed twice: a second try of the primary
urlsPrimaryTwice(source) ==
  <<source.rss>> \o SelectSeq(<<source.rss, source.rssAlternate>>, LAMBDA u : u # NoUrl)

urls(source) == SelectSeq(<<source.rss, source.rssAlternate>>, LAMBDA u : u # NoUrl)

\* item.pubDate || item.published || item.updated || item['dc:date'] || '':
\* the first value that is present and not empty ("none" = absent or empty)
pubDateUpdatedFirst(item) ==
  IF item.pubDate.kind # "none" THEN item.pubDate
  ELSE IF item.updated.kind # "none" THEN item.updated
  ELSE IF item.published.kind # "none" THEN item.published
  ELSE item.dcDate

pubDate(item) ==
  IF item.pubDate.kind # "none" THEN item.pubDate
  ELSE IF item.published.kind # "none" THEN item.published
  ELSE IF item.updated.kind # "none" THEN item.updated
  ELSE item.dcDate

AcceptsAfterCutoff(now, item) ==
  LET dateStr == toDateStr(now, pubDate(item))
      today == todayStr(now)
      cutoff == dateOffset(now, -WindowDays)
  IN ~(dateStr <= cutoff \/ dateStr > today)

Accepts(now, item) ==
  LET dateStr == toDateStr(now, pubDate(item))
      today == todayStr(now)
      cutoff == dateOffset(now, -WindowDays)
  IN ~(dateStr < cutoff \/ dateStr > today)

CompleteLinkOnly(item) == ~(item.link = "")

Complete(item) == ~(item.title = "" \/ item.link = "")

Article(source, now, item) ==
  LET desc == Min(item.desc, DescMax)
  IN [date |-> toDateStr(now, pubDate(item)),
      sourceName |-> source.name,
      title |-> item.title,
      summary |-> IF desc # 0 THEN [text |-> "desc", len |-> desc]
                  ELSE [text |-> "title", len |-> 1],
      url |-> item.link]

RECURSIVE ExtractItems(_, _, _)
ExtractItems(source, now, items) ==
  IF items = <<>> THEN <<>>
  ELSE LET item == Head(items)
           rest == ExtractItems(source, now, Tail(items))
       IN IF Accepts(now, item) /\ Complete(item)
          THEN <<Article(source, now, item)>> \o rest
          ELSE rest

\* An async function settles by returning a value or by throwing (threw).
Returned(value) == [threw |-> FALSE, value |-> value]
Thrown(value) == [threw |-> TRUE, value |-> value]

\* res: what the request of a feed URL comes back with: "error" (fetch rejects:
\* DNS, connection, timeout; or the parser throws), "status" (!res.ok),
\* "noroot" (neither rss.channel nor feed), "ok" (a channel with items).
\* Everything runs inside one try block whose catch returns [].
tryFetchURLUncaught(source, now, res) ==
  IF res.kind = "error" THEN Thrown(<<>>)
  ELSE IF res.kind = "ok" THEN Returned(ExtractItems(source, now, res.items))
  ELSE Returned(<<>>)

tryFetchURL(source, now, res) ==
  IF res.kind = "error" THEN Returned(<<>>)
  ELSE IF res.kind = "status" THEN Returned(<<>>)
  ELSE IF res.kind = "noroot" THEN Returned(<<>>)
  ELSE Returned(ExtractItems(source, now, res.items))

\* Array.prototype.indexOf: the first position of url in urls
IndexOf(us, url) ==
  CHOOSE i \in 1..Len(us) : us[i] = url /\ \A j \in 1..(i - 1) : us[j] # url

\* fetchRSS: whether the loop returns the articles of this url
ReturnsAlways(us, url, articles) == TRUE

Returns(us, url, articles) ==
  Len(articles) > 0 \/ IndexOf(us, url) = Len(us)

\* ----------------------------------------------------------- summarizer
\* The guard of aiSummarize: no client, empty text or text of at most 120
\* characters returns rawDesc without a request.
ShortCircuitBelow(configured, rawDesc) ==
  ~configured \/ rawDesc.len = 0 \/ rawDesc.len < SummaryMin

ShortCircuit(configured, rawDesc) ==
  ~configured \/ rawDesc.len = 0 \/ rawDesc.len <= SummaryMin

\* reply: what anthropic.messages.create comes back with: "ok" with
\* content[0].text of the given trimmed length, "reject" (the call throws or
\* times out), "malformed" (content[0] or its text is missing, so that the
\* return expression throws).  The try block covers the call and the return.
aiSummarizeUncaught(configured, rawDesc, reply) ==
  IF ShortCircuit(configured, rawDesc) THEN Returned(rawDesc)
  ELSE IF reply.kind = "ok" THEN Returned([text |-> "ai", len |-> reply.len])
  ELSE Thrown(rawDesc)

aiSummarize(configured, rawDesc, reply) ==
  IF ShortCircuit(configured, rawDesc) THEN Returned(rawDesc)
  ELSE IF reply.kind = "ok" THEN Returned([text |-> "ai", len |-> reply.len])
  ELSE Returned(rawDesc)

\* ---------------------------------------------------------- merge engine
Range(s) == {s[i] : i \in DOMAIN s}

existingUrls(existing) == {a.url : a \in Range(existing)}

NewUniqueUnfiltered(allNew, existing) == allNew

NewUnique(allNew, existing) ==
  SelectSeq(allNew, LAMBDA a : a.url \notin existingUrls(existing))

cutoffStr(now) == toISODateStr(now - RetentionDays * HoursPerDay)

TrimmedExclusive(existing, now) == SelectSeq(existing, LAMBDA a : a.date > cutoffStr(now))

Trimmed(existing, now) == SelectSeq(existing, LAMBDA a : a.date >= cutoffStr(now))

\* Array.prototype.sort is stable: an element goes after the elements that
\* compare before it or equal to it.
RECURSIVE InsertByDateAscending(_, _)
InsertByDateAscending(a, sorted) ==
  IF sorted = <<>> THEN <<a>>
  ELSE IF Head(sorted).date <= a.date
       THEN <<Head(sorted)>> \o InsertByDateAscending(a, Tail(sorted))
       ELSE <<a>> \o sorted

RECURSIVE InsertByDate(_, _)
InsertByDate(a, sorted) ==
  IF sorted = <<>> THEN <<a>>
  ELSE IF Head(sorted).date >= a.date
       THEN <<Head(sorted)>> \o InsertByDate(a, Tail(sorted))
       ELSE <<a>> \o sorted

RECURSIVE SortByDateDesc(_)
SortByDateDesc(s) ==
  IF s = <<>> THEN <<>>
  ELSE InsertByDate(s[Len(s)], SortByDateDesc(SubSeq(s, 1, Len(s) - 1)))

Final(newUnique, existing, now) ==
  SortByDateDesc(newUnique \o Trimmed(existing, now))

\* the merge with the known URLs taken from the retained articles only
MergeEngineTrimFirst(allNew, existing, now) ==
  Final(NewUnique(allNew, Trimmed(existing, now)), existing, now)

\* main, lines "Deduplicate by URL" to the sort, as a function of the fetched
\* list, the stored list and the instant
MergeEngine(allNew, existing, now) ==
  Final(NewUnique(allNew, existing), existing, now)

\* ------------------------------------------------------------ environment
Urls == {"http://a", "http://b"}

Ts(t) == [kind |-> "ts", t |-> t]
NoDate == [kind |-> "none", t |-> 0]
BadDate == [kind |-> "bad", t |-> 0]

Entry(d1, d2, d3, d4, title, link, desc) ==
  [pubDate |-> d1, published |-> d2, updated |-> d3, dcDate |-> d4,
   title |-> title, link |-> link, desc |-> desc]

\* an RSS 2.0 item: the date, if any, is in pubDate
Item(d1, title, link, desc) == Entry(d1, NoDate, NoDate, NoDate, title, link, desc)

\* The entries a feed may carry at instant now: a long text published now, a
\* short text published at the start of the window, an entry without a date
\* or description, an entry before the window and an entry without a link.
Pool(now) ==
  { Item(Ts(now), "T", "http://a", SummaryMin + 1),
    Item(Ts(now - WindowDays * HoursPerDay), "T", "http://b", SummaryMin),
    Item(NoDate, "T", "http://b", 0),
    Item(Ts(now - (WindowDays + 1) * HoursPerDay), "T", "http://a", DescMax + 1),
    Item(Ts(now), "T", "", SummaryMin) }

SeqsUpTo(S, n) == UNION {[1..k -> S] : k \in 0..n}

Responses(now) ==
  { [kind |-> k, items |-> <<>>] : k \in {"error", "status", "noroot"} }
    \cup { [kind |-> "ok", items |-> f] : f \in SeqsUpTo(Pool(now), MaxItems) }

Replies == { [kind |-> "reject", len |-> 0], [kind |-> "malformed", len |-> 0],
             [kind |-> "ok", len |-> 0], [kind |-> "ok", len |-> 80] }

\* Time between two invocations: the daily schedule, or a pause of the schedule.
Gaps == { HoursPerDay, (RetentionDays - WindowDays + 1) * HoursPerDay }

\* ------------------------------------------------------------------ state
VARIABLES
  clock,       \* hours since the epoch (UTC)
  file,        \* data/articles.json: [kind, articles]
  pc,          \* where main is: idle, fetch, load, summarize, merge, done, fatal, killed
  anthropic,   \* whether the API client was constructed
  srcIdx,      \* main's loop over SOURCES
  urlIdx,      \* fetchRSS's loop over urls
  allNew, existing, newUnique,
  sumIdx,      \* main's loop over newUnique
  exitCode,    \* -1 while the process has not exited
  runs, ticks, \* counters that bound the behaviour
  attempts,    \* this run's requests: <<source index, url, articles obtained>>
  lastKind,    \* how the last request ended: error, status, noroot, ok
  returned,    \* what fetchRSS returned for each source of this run
  fileAtStart, \* the file when this run started
  writes,      \* writeFileSync calls of this run
  lastSum,     \* the last aiSummarize call: [url, rawDesc, sent, reply, result]
  inFlight,    \* the requests sent and not yet settled, oldest first
  pure         \* inputs and results of the function-level specifications

vars == <<clock, file, pc, anthropic, srcIdx, urlIdx, allNew, existing, newUnique,
          sumIdx, exitCode, runs, ticks, attempts, lastKind, returned, fileAtStart, writes,
          lastSum, inFlight, pure>>

NoSum == [url |-> "", rawDesc |-> [text |-> "none", len |-> 0], sent |-> FALSE,
          reply |-> [kind |-> "none", len |-> 0],
          result |-> [text |-> "none", len |-> 0], threw |-> FALSE]

NoFile == [kind |-> "absent", articles |-> <<>>]

Unused == [op |-> "none"]

Running == pc \in {"fetch", "load", "summarize", "merge"}

\* Before the first invocation: no file yet; the schedule fires at 22:00 UTC.
NotStarted ==
  /\ clock = StartHour
  /\ file = NoFile
  /\ pc = "idle"
  /\ srcIdx = 1 /\ urlIdx = 1
  /\ allNew = <<>> /\ existing = <<>> /\ newUnique = <<>>
  /\ sumIdx = 1
  /\ exitCode = -1
  /\ runs = 0 /\ ticks = 0
  /\ attempts = <<>> /\ lastKind = "none" /\ returned = <<>>
  /\ fileAtStart = NoFile
  /\ writes = 0
  /\ lastSum = NoSum
  /\ inFlight = <<>>

Init ==
  /\ NotStarted
  /\ anthropic \in BOOLEAN
  /\ pure = Unused

\* The scheduler starts the process: module initialisation, main's first line.
StartRun ==
  /\ ~Running
  /\ runs < MaxRuns
  /\ \E gap \in (IF runs = 0 THEN {0} ELSE Gaps) : clock' = clock + gap
  /\ pc' = "fetch"
  /\ srcIdx' = 1 /\ urlIdx' = 1
  /\ allNew' = <<>> /\ existing' = <<>> /\ newUnique' = <<>>
  /\ sumIdx' = 1
  /\ exitCode' = -1
  /\ runs' = runs + 1 /\ ticks' = 0
  /\ attempts' = <<>> /\ lastKind' = "none" /\ returned' = <<>>
  /\ fileAtStart' = file
  /\ writes' = 0
  /\ lastSum' = NoSum
  /\ inFlight' = <<>>
  /\ UNCHANGED <<file, anthropic, pure>>

\* `await`: the caller goes on only when the request it sent has settled, so
\* it sends a request only when none of its requests is outstanding.
MaySendOverlapping(pending) == Len(pending) < 2

MaySend(pending) == pending = <<>>

\* fetchRSS's loop sends the request for the URL it is at and is suspended.
Request ==
  /\ pc = "fetch"
  /\ MaySend(inFlight)
  /\ inFlight' = Append(inFlight, [op |-> "fetch", at |-> srcIdx,
                                   url |-> urls(SOURCES[srcIdx])[urlIdx]])
  /\ UNCHANGED <<clock, file, pc, anthropic, srcIdx, urlIdx, allNew, existing,
                 newUnique, sumIdx, exitCode, runs, ticks, attempts, lastKind,
                 returned, fileAtStart, writes, lastSum, pure>>

\* One iteration of fetchRSS's loop for the source main is at: the request
\* settles, tryFetchURL works on its response, and the loop returns or goes
\* on.  A rejection of tryFetchURL would reject fetchRSS and main, whose catch
\* handler exits with 1.
Fetch ==
  /\ pc = "fetch"
  /\ inFlight # <<>>
  /\ inFlight' = Tail(inFlight)
  /\ LET source == SOURCES[srcIdx]
         us == urls(source)
         url == us[urlIdx]
     IN \E res \in Responses(clock) :
          LET got == tryFetchURL(source, clock, res)
              articles == got.value
          IN /\ attempts' = Append(attempts, <<srcIdx, url, articles>>)
             /\ lastKind' = res.kind
             /\ IF got.threw
                THEN /\ pc' = "fatal"
                     /\ exitCode' = 1
                     /\ UNCHANGED <<allNew, returned, srcIdx, urlIdx>>
                ELSE IF Returns(us, url, articles)
                THEN /\ allNew' = allNew \o articles
                     /\ returned' = Append(returned, articles)
                     /\ urlIdx' = 1
                     /\ srcIdx' = srcIdx + 1
                     /\ pc' = IF srcIdx = Len(SOURCES) THEN "load" ELSE "fetch"
                     /\ UNCHANGED exitCode
                ELSE /\ urlIdx' = urlIdx + 1
                     /\ UNCHANGED <<allNew, returned, srcIdx, pc, exitCode>>
  /\ UNCHANGED <<clock, file, anthropic, existing, newUnique, sumIdx,
                 runs, ticks, fileAtStart, writes, lastSum, pure>>

\* existsSync false, or JSON.parse throws: existing stays []
ReadStore(f) ==
  IF f.kind = "absent" THEN <<>>
  ELSE IF f.kind = "corrupt" THEN <<>>
  ELSE f.articles

\* Load without the catch around JSON.parse: unparseable content rejects main.
LoadUncaught ==
  /\ pc = "load"
  /\ IF file.kind = "corrupt"
     THEN /\ pc' = "fatal"
          /\ exitCode' = 1
          /\ UNCHANGED <<existing, newUnique>>
     ELSE LET read == ReadStore(file)
              unique == NewUnique(allNew, read)
          IN /\ existing' = read
             /\ newUnique' = unique
             /\ pc' = IF anthropic /\ Len(unique) > 0 THEN "summarize" ELSE "merge"
             /\ UNCHANGED exitCode
  /\ sumIdx' = 1
  /\ UNCHANGED <<clock, file, anthropic, srcIdx, urlIdx, allNew, runs,
                 ticks, attempts, lastKind, returned, fileAtStart, writes, lastSum,
                 inFlight, pure>>

\* main: read articles.json and drop the new articles whose URL it holds.
Load ==
  /\ pc = "load"
  /\ LET read == ReadStore(file)
         unique == NewUnique(allNew, read)
     IN /\ existing' = read
        /\ newUnique' = unique
        /\ pc' = IF anthropic /\ Len(unique) > 0 THEN "summarize" ELSE "merge"
  /\ sumIdx' = 1
  /\ UNCHANGED <<clock, file, anthropic, srcIdx, urlIdx, allNew, exitCode, runs,
                 ticks, attempts, lastKind, returned, fileAtStart, writes, lastSum,
                 inFlight, pure>>

\* Summarize, saving the collection after every article.
SummarizeAndSave ==
  /\ pc = "summarize"
  /\ IF ShortCircuit(anthropic, newUnique[sumIdx].summary)
     THEN inFlight = <<>> /\ UNCHANGED inFlight
     ELSE inFlight # <<>> /\ inFlight' = Tail(inFlight)
  /\ \E reply \in Replies :
       LET rawDesc == newUnique[sumIdx].summary
           got == aiSummarize(anthropic, rawDesc, reply)
           sent == ~ShortCircuit(anthropic, rawDesc)
       IN /\ lastSum' = [url |-> newUnique[sumIdx].url, rawDesc |-> rawDesc, sent |-> sent,
                         reply |-> IF sent THEN reply ELSE NoSum.reply,
                         result |-> got.value, threw |-> got.threw]
          /\ newUnique' = [newUnique EXCEPT ![sumIdx].summary = got.value]
          /\ file' = [kind |-> "json", articles |-> Final(newUnique', existing, clock)]
  /\ writes' = writes + 1
  /\ sumIdx' = sumIdx + 1
  /\ pc' = IF sumIdx = Len(newUnique) THEN "merge" ELSE "summarize"
  /\ UNCHANGED <<clock, anthropic, srcIdx, urlIdx, allNew, existing, exitCode,
                 runs, ticks, attempts, lastKind, returned, fileAtStart, pure>>

\* aiSummarize, past its guard, sends the request for the article main is at
\* and is suspended.
Ask ==
  /\ pc = "summarize"
  /\ ~ShortCircuit(anthropic, newUnique[sumIdx].summary)
  /\ MaySend(inFlight)
  /\ inFlight' = Append(inFlight, [op |-> "summary", at |-> sumIdx,
                                   url |-> newUnique[sumIdx].url])
  /\ UNCHANGED <<clock, file, pc, anthropic, srcIdx, urlIdx, allNew, existing,
                 newUnique, sumIdx, exitCode, runs, ticks, attempts, lastKind,
                 returned, fileAtStart, writes, lastSum, pure>>

\* main: one iteration of the loop over newUnique: the guard of aiSummarize
\* returns at once, or the request that was sent settles.
Summarize ==
  /\ pc = "summarize"
  /\ IF ShortCircuit(anthropic, newUnique[sumIdx].summary)
     THEN inFlight = <<>> /\ UNCHANGED inFlight
     ELSE inFlight # <<>> /\ inFlight' = Tail(inFlight)
  /\ \E reply \in Replies :
       LET rawDesc == newUnique[sumIdx].summary
           got == aiSummarize(anthropic, rawDesc, reply)
           sent == ~ShortCircuit(anthropic, rawDesc)
       IN /\ lastSum' = [url |-> newUnique[sumIdx].url, rawDesc |-> rawDesc, sent |-> sent,
                         reply |-> IF sent THEN reply ELSE NoSum.reply,
                         result |-> got.value, threw |-> got.threw]
          /\ IF got.threw
             THEN /\ pc' = "fatal"
                  /\ exitCode' = 1
                  /\ UNCHANGED <<newUnique, sumIdx>>
             ELSE /\ newUnique' = [newUnique EXCEPT ![sumIdx].summary = got.value]
                  /\ sumIdx' = sumIdx + 1
                  /\ pc' = IF sumIdx = Len(newUnique) THEN "merge" ELSE "summarize"
                  /\ UNCHANGED exitCode
  /\ UNCHANGED <<clock, file, anthropic, srcIdx, urlIdx, allNew, existing,
                 runs, ticks, attempts, lastKind, returned, fileAtStart, writes, pure>>

\* main: trim, sort, write; then the process ends normally.
Write ==
  /\ pc = "merge"
  /\ file' = [kind |-> "json", articles |-> Final(newUnique, existing, clock)]
  /\ writes' = writes + 1
  /\ pc' = "done"
  /\ exitCode' = 0
  /\ UNCHANGED <<clock, anthropic, srcIdx, urlIdx, allNew, existing, newUnique,
                 sumIdx, runs, ticks, attempts, lastKind, returned, fileAtStart, lastSum,
                 inFlight, pure>>

\* mkdirSync throws: nothing is written, main rejects and the catch handler
\* exits with 1.
MkdirFails ==
  /\ pc = "merge"
  /\ pc' = "fatal"
  /\ exitCode' = 1
  /\ UNCHANGED <<clock, file, anthropic, srcIdx, urlIdx, allNew, existing, newUnique,
                 sumIdx, runs, ticks, attempts, lastKind, returned, fileAtStart, writes,
                 lastSum, inFlight, pure>>

Corrupt == [kind |-> "corrupt", articles |-> <<>>]

\* writeFileSync throws and the error is swallowed: main goes on to its last
\* line and the process ends normally.
WriteFailsSwallowed ==
  /\ pc = "merge"
  /\ \E left \in {file, Corrupt} : file' = left
  /\ writes' = writes + 1
  /\ pc' = "done"
  /\ exitCode' = 0
  /\ UNCHANGED <<clock, anthropic, srcIdx, urlIdx, allNew, existing, newUnique,
                 sumIdx, runs, ticks, attempts, lastKind, returned, fileAtStart,
                 lastSum, inFlight, pure>>

\* writeFileSync throws: on opening the file (it is left as it was) or while
\* writing (the file is left truncated, which JSON.parse rejects).
WriteFails ==
  /\ pc = "merge"
  /\ \E left \in {file, Corrupt} : file' = left
  /\ writes' = writes + 1
  /\ pc' = "fatal"
  /\ exitCode' = 1
  /\ UNCHANGED <<clock, anthropic, srcIdx, urlIdx, allNew, existing, newUnique,
                 sumIdx, runs, ticks, attempts, lastKind, returned, fileAtStart,
                 lastSum, inFlight, pure>>

\* The process is terminated from outside while main is still running; what it
\* held in memory is gone.
Kill ==
  /\ Running
  /\ pc' = "killed"
  /\ exitCode' = 137
  /\ srcIdx' = 1 /\ urlIdx' = 1
  /\ allNew' = <<>> /\ existing' = <<>> /\ newUnique' = <<>>
  /\ sumIdx' = 1
  /\ attempts' = <<>> /\ lastKind' = "none" /\ returned' = <<>>
  /\ lastSum' = NoSum
  /\ inFlight' = <<>>
  /\ UNCHANGED <<clock, file, anthropic, runs, ticks, fileAtStart, writes, pure>>

\* Time passes while main is suspended.
Tick ==
  /\ Running
  /\ ticks < MaxTicks
  /\ clock' = clock + TickHours
  /\ ticks' = ticks + 1
  /\ UNCHANGED <<file, pc, anthropic, srcIdx, urlIdx, allNew, existing, newUnique,
                 sumIdx, exitCode, runs, attempts, lastKind, returned, fileAtStart, writes,
                 lastSum, inFlight, pure>>

Next ==
  \/ StartRun \/ Request \/ Fetch \/ Load \/ Ask \/ Summarize \/ Write
  \/ MkdirFails \/ WriteFails \/ Kill \/ Tick

Spec == Init /\ [][Next]_vars

\* ------------------------------------------- the extractor as a function
MainVars == <<clock, file, pc, anthropic, srcIdx, urlIdx, allNew, existing, newUnique,
              sumIdx, exitCode, runs, ticks, attempts, lastKind, returned,
              fileAtStart, writes, lastSum, inFlight>>

\* publication instants from nine days before now to two days after it
PubOffsets == { k * TickHours : k \in (-(WindowDays + 2) * 3)..(2 * 3) }

ExtractInputsAt(n) ==
  { [op |-> "extract", now |-> n, item |-> Item(p, t, l, d), done |-> FALSE,
     out |-> <<>>] :
      p \in {Ts(n + h) : h \in PubOffsets} \cup {NoDate, BadDate},
      t \in {"T", ""}, l \in {"http://a", ""}, d \in {0, DescMax + 1} }

ExtractInputs == UNION { ExtractInputsAt(n) : n \in 0..(HoursPerDay - 1) }

ExtractInit ==
  /\ NotStarted
  /\ anthropic = FALSE
  /\ pure \in ExtractInputs

\* tryFetchURL on a feed of one entry
ApplyExtract ==
  /\ pure.op = "extract"
  /\ ~pure.done
  /\ pure' = [pure EXCEPT
       !.done = TRUE,
       !.out = tryFetchURL(SOURCES[1], pure.now,
                           [kind |-> "ok", items |-> <<pure.item>>]).value]
  /\ UNCHANGED MainVars

ExtractNext == ApplyExtract

ExtractSpec == ExtractInit /\ [][ExtractNext]_vars

\* ------------------------------------------ the merge engine as a function
MaxMerge == 2     \* articles in each list given to the merge engine

MergeArticle(u, d) ==
  [date |-> d, sourceName |-> SOURCES[1].name, title |-> "T",
   summary |-> [text |-> "desc", len |-> SummaryMin], url |-> u]

\* articles dated today, and around the retention cutoff
MergeArticles(now) ==
  { MergeArticle(u, todayStr(now) - k) :
      u \in Urls, k \in {0, RetentionDays, RetentionDays + 1} }

IsSorted(s) == \A i, j \in DOMAIN s : i < j => s[i].date >= s[j].date

MergeInputs ==
  { [op |-> "merge", now |-> n, N |-> new, E |-> old, step |-> 0,
     O1 |-> <<>>, O2 |-> <<>>] :
      n \in {StartHour, StartHour + TickHours},
      new \in SeqsUpTo(MergeArticles(StartHour), MaxMerge),
      old \in {e \in SeqsUpTo(MergeArticles(StartHour), MaxMerge) : IsSorted(e)} }

MergeInit ==
  /\ NotStarted
  /\ anthropic = FALSE
  /\ pure \in MergeInputs

MergeOnce ==
  /\ pure.op = "merge"
  /\ pure.step = 0
  /\ pure' = [pure EXCEPT !.step = 1, !.O1 = MergeEngine(pure.N, pure.E, pure.now)]
  /\ UNCHANGED MainVars

MergeAgain ==
  /\ pure.op = "merge"
  /\ pure.step = 1
  /\ pure' = [pure EXCEPT !.step = 2, !.O2 = MergeEngine(pure.N, pure.O1, pure.now)]
  /\ UNCHANGED MainVars

MergeNext == MergeOnce \/ MergeAgain

MergeSpec == MergeInit /\ [][MergeNext]_vars

\* ------------------------------------- the date of an entry as a function
\* each date field absent, unparseable or an instant of its own
DateInputsAt(n) ==
  { [op |-> "date", now |-> n, item |-> Entry(d1, d2, d3, d4, "T", "http://a", 0),
     done |-> FALSE, out |-> <<>>] :
      d1 \in {NoDate, BadDate, Ts(n), Ts(n - (WindowDays + 1) * HoursPerDay)},
      d2 \in {NoDate, BadDate, Ts(n - HoursPerDay)},
      d3 \in {NoDate, BadDate, Ts(n - 2 * HoursPerDay)},
      d4 \in {NoDate, BadDate, Ts(n - 3 * HoursPerDay)} }

DateInputs == DateInputsAt(StartHour) \cup DateInputsAt(StartHour + TickHours)

DateInit ==
  /\ NotStarted
  /\ anthropic = FALSE
  /\ pure \in DateInputs

\* tryFetchURL on a feed of one entry
ApplyDate ==
  /\ pure.op = "date"
  /\ ~pure.done
  /\ pure' = [pure EXCEPT
       !.done = TRUE,
       !.out = tryFetchURL(SOURCES[1], pure.now,
                           [kind |-> "ok", items |-> <<pure.item>>]).value]
  /\ UNCHANGED MainVars

DateNext == ApplyDate

DateSpec == DateInit /\ [][DateNext]_vars

\* ------------------------------------------- a whole feed as a function
MaxFeed == 2      \* entries in the feed given to the extractor

\* entries dated now or undated, with and without title and link, and an
\* entry before the window
FeedPool(now) ==
  { Item(Ts(now), "T", "http://a", SummaryMin),
    Item(NoDate, "T", "http://b", 0),
    Item(Ts(now), "", "http://a", SummaryMin),
    Item(Ts(now), "T", "", SummaryMin),
    Item(NoDate, "", "", 0),
    Item(Ts(now - (WindowDays + 1) * HoursPerDay), "T", "http://b", SummaryMin) }

FeedInputsAt(n) ==
  { [op |-> "feed", now |-> n, items |-> f, done |-> FALSE, out |-> <<>>] :
      f \in SeqsUpTo(FeedPool(n), MaxFeed) }

FeedInputs == FeedInputsAt(StartHour) \cup FeedInputsAt(StartHour + TickHours)

FeedInit ==
  /\ NotStarted
  /\ anthropic = FALSE
  /\ pure \in FeedInputs

\* tryFetchURL on a response that carries the feed
ApplyFeed ==
  /\ pure.op = "feed"
  /\ ~pure.done
  /\ pure' = [pure EXCEPT
       !.done = TRUE,
       !.out = tryFetchURL(SOURCES[2], pure.now,
                           [kind |-> "ok", items |-> pure.items]).value]
  /\ UNCHANGED MainVars

FeedNext == ApplyFeed

FeedSpec == FeedInit /\ [][FeedNext]_vars

\* ------------------------------------------------------------- properties
Stored == file.articles

AttemptsOf(s) == SelectSeq(attempts, LAMBDA a : a[1] = s)

RECURSIVE Flatten(_)
Flatten(ss) == IF ss = <<>> THEN <<>> ELSE Head(ss) \o Flatten(Tail(ss))

FetchedAll == pc \in {"load", "summarize", "merge", "done", "fatal"}

\* C1: no two articles of the written collection share a URL, also when the
\* fetched list itself holds the same URL more than once.
C1_UrlsUnique ==
  \A i, j \in DOMAIN Stored : i # j => Stored[i].url # Stored[j].url

\* C2: every article of a written collection is dated no earlier than today
\* (UTC+8) minus 30 days, at whatever instant the run executes.
C2_RetentionBound ==
  pc = "done" =>
    \A i \in DOMAIN Stored : Stored[i].date >= todayStr(clock) - RetentionDays

\* C3: the primary URL is requested first; the alternate is requested if and
\* only if the primary gave no article; fetchRSS returns exactly what the last
\* requested URL gave.
C3_FallbackIffPrimaryEmpty ==
  \A s \in 1..Len(SOURCES) :
    LET as == AttemptsOf(s)
        source == SOURCES[s]
    IN /\ Len(as) >= 1 => as[1][2] = source.rss
       /\ Len(as) >= 2 => /\ source.rssAlternate # NoUrl
                          /\ as[2][2] = source.rssAlternate
                          /\ as[1][3] = <<>>
       /\ Len(as) <= 2
       /\ s <= Len(returned) =>
            /\ Len(as) >= 1
            /\ returned[s] = as[Len(as)][3]
            /\ (source.rssAlternate # NoUrl /\ as[1][3] = <<>>) => Len(as) = 2

C3_Witness ==
  /\ Len(returned) = 2
  /\ Len(AttemptsOf(2)) = 2
  /\ returned[2] # <<>>

\* C4: no outcome of a request ends the run: the run exits only at the write,
\* after every source was requested in registry order; a source whose requests
\* all failed adds nothing, and what the other sources gave is written.
C4_FetchFailuresNeverAbort ==
  /\ pc = "fetch" => exitCode = -1
  /\ FetchedAll =>
       /\ Len(returned) = Len(SOURCES)
       /\ \A i \in 1..(Len(attempts) - 1) : attempts[i][1] <= attempts[i + 1][1]
       /\ {a[1] : a \in Range(attempts)} = 1..Len(SOURCES)
       /\ allNew = Flatten(returned)
       /\ \A s \in 1..Len(SOURCES) :
            (\A a \in Range(AttemptsOf(s)) : a[3] = <<>>) => returned[s] = <<>>
  /\ pc = "done" =>
       \A i \in DOMAIN allNew :
         allNew[i].url \notin existingUrls(ReadStore(fileAtStart)) =>
           \E j \in DOMAIN Stored : /\ Stored[j].url = allNew[i].url
                                    /\ Stored[j].date = allNew[i].date
                                    /\ Stored[j].sourceName = allNew[i].sourceName

C4_Witness ==
  /\ pc = "done"
  /\ lastKind = "error"
  /\ returned[2] = <<>>
  /\ returned[1] # <<>>
  /\ \E j \in DOMAIN Stored : Stored[j] = returned[1][1]

\* C5: a run calls writeFileSync at most once, and only when every source was
\* fetched and every new article went through the summarizer loop; a run that
\* stops before that leaves the file as it was when the run started.
C5_SingleWriteAtEnd ==
  /\ writes <= 1
  /\ writes = 0 => file = fileAtStart
  /\ writes = 1 =>
       /\ pc \in {"done", "fatal"}
       /\ Len(returned) = Len(SOURCES)
       /\ (anthropic /\ newUnique # <<>>) => sumIdx = Len(newUnique) + 1

C5_Witness ==
  /\ pc = "killed"
  /\ runs = 2
  /\ fileAtStart.kind = "json"
  /\ fileAtStart.articles # <<>>

\* C8: the written collection is ordered by date, latest first.
C8_SortedByDateDesc ==
  file.kind = "json" =>
    \A i, j \in DOMAIN Stored : i < j => Stored[i].date >= Stored[j].date

C8_Witness ==
  /\ pc = "done"
  /\ \E i \in DOMAIN newUnique, j \in DOMAIN existing :
       /\ existing[j].date >= cutoffStr(clock)
       /\ newUnique[i].date < existing[j].date

\* C9: aiSummarize never throws: when the request fails or its response lacks
\* the text, the article keeps rawDesc and the loop goes on to the next one.
C9_SummarizerNeverRaises ==
  /\ ~lastSum.threw
  /\ lastSum.reply.kind \in {"reject", "malformed"} =>
       /\ lastSum.result = lastSum.rawDesc
       /\ sumIdx >= 2
       /\ newUnique[sumIdx - 1].summary = lastSum.rawDesc

C9_Witness ==
  /\ pc = "done"
  /\ lastSum.reply.kind = "malformed"
  /\ \E j \in DOMAIN Stored : Stored[j].summary = lastSum.rawDesc

\* C10: a summary of at most 120 characters is not sent and stays as it is;
\* without a client nothing is sent and every summary stays as extracted.
C10_ShortSummariesNotSent ==
  /\ (lastSum # NoSum /\ lastSum.rawDesc.len <= SummaryMin) =>
       /\ ~lastSum.sent
       /\ lastSum.result = lastSum.rawDesc
  /\ ~anthropic =>
       /\ lastSum = NoSum
       /\ pc \in {"merge", "done"} => newUnique = NewUnique(allNew, existing)

C10_Witness ==
  /\ anthropic
  /\ lastSum.rawDesc = [text |-> "desc", len |-> SummaryMin]
  /\ ~lastSum.sent
  /\ lastSum.result = lastSum.rawDesc

\* C6: an entry with a title and a link is accepted exactly when its date in
\* UTC+8 lies between today (UTC+8) minus 7 days and today, both included.
C6_WindowInclusive ==
  (pure.op = "extract" /\ pure.done /\ pure.item.title # "" /\ pure.item.link # "") =>
    LET today == (pure.now + BeijingOffsetHours) \div HoursPerDay
        d == IF pure.item.pubDate.kind = "ts"
             THEN (pure.item.pubDate.t + BeijingOffsetHours) \div HoursPerDay
             ELSE today
        cutoff == today - WindowDays
    IN /\ (pure.out # <<>>) <=> (cutoff <= d /\ d <= today)
       /\ pure.out # <<>> => (Len(pure.out) = 1 /\ pure.out[1].date = d)

C6_Witness ==
  /\ pure.op = "extract" /\ pure.done
  /\ pure.item.pubDate.kind = "ts"
  /\ (pure.item.pubDate.t + BeijingOffsetHours) \div HoursPerDay
       = (pure.now + BeijingOffsetHours) \div HoursPerDay - WindowDays
  /\ pure.now \div HoursPerDay # (pure.now + BeijingOffsetHours) \div HoursPerDay
  /\ pure.out # <<>>

Count(s, u) == Cardinality({i \in DOMAIN s : s[i].url = u})

NoGrowth ==
  /\ Len(pure.O2) <= Len(pure.O1)
  /\ \A u \in Urls : Count(pure.O2, u) <= Count(pure.O1, u)

\* C7 as stated: merging N with E and then N again with the result gives a
\* collection that is no larger and holds no URL more often.
C7_MergeTwiceNoGrowth ==
  (pure.op = "merge" /\ pure.step = 2) => NoGrowth

\* Every URL of N that occurs in E occurs there in an article the retention
\* filter keeps.
KnownUrlsRetained ==
  \A i \in DOMAIN pure.N :
    pure.N[i].url \in existingUrls(pure.E) =>
      \E j \in DOMAIN pure.E :
        /\ pure.E[j].url = pure.N[i].url
        /\ pure.E[j].date >= (pure.now - RetentionDays * HoursPerDay) \div HoursPerDay

\* C7 as amended: the same, for N and E such that every URL of N that occurs
\* in E occurs there in an article the retention filter keeps.
C7_MergeTwiceNoGrowthRetained ==
  (pure.op = "merge" /\ pure.step = 2 /\ KnownUrlsRetained) => NoGrowth

C7_Witness ==
  /\ pure.op = "merge" /\ pure.step = 2
  /\ KnownUrlsRetained
  /\ \E i \in DOMAIN pure.N : pure.N[i].url \in existingUrls(pure.E)
  /\ \E i \in DOMAIN pure.N : pure.N[i].url \notin existingUrls(pure.E)
  /\ Len(pure.O2) = Len(pure.O1)
  /\ Len(pure.O1) > Len(pure.E)

\* C11: every article of a written collection has a non-empty summary, also
\* when the summary is the text the text-generation API returned.
C11_SummaryNonEmpty ==
  \A i \in DOMAIN Stored : Stored[i].summary.len > 0

\* The first date value of an entry that is present, in the order pubDate,
\* published, updated, dc:date.
FirstPresent(e) ==
  LET ds == SelectSeq(<<e.pubDate, e.published, e.updated, e.dcDate>>,
                      LAMBDA d : d.kind # "none")
  IN IF ds = <<>> THEN [kind |-> "none", t |-> 0] ELSE ds[1]

\* The entries of a feed that have a title, a link and a date inside the
\* window, in feed order.
InWindow(now, dateVal) ==
  LET today == (now + BeijingOffsetHours) \div HoursPerDay
      d == IF dateVal.kind = "ts"
           THEN (dateVal.t + BeijingOffsetHours) \div HoursPerDay
           ELSE today
  IN today - WindowDays <= d /\ d <= today

Kept(now, items) ==
  SelectSeq(items, LAMBDA e : e.title # "" /\ e.link # "" /\ InWindow(now, FirstPresent(e)))

\* C12: every extracted article has a non-empty title and url; an entry without
\* title or without link is left out whatever its date, and the other entries
\* of the feed are extracted as they would be without it.
C12_TitleAndUrlNonEmpty ==
  (pure.op = "feed" /\ pure.done) =>
    /\ \A i \in DOMAIN pure.out : pure.out[i].title # "" /\ pure.out[i].url # ""
    /\ Len(pure.out) = Len(Kept(pure.now, pure.items))
    /\ \A i \in DOMAIN pure.out :
         /\ pure.out[i].url = Kept(pure.now, pure.items)[i].link
         /\ pure.out[i].title = Kept(pure.now, pure.items)[i].title

C12_Witness ==
  /\ pure.op = "feed" /\ pure.done
  /\ Len(pure.items) = 2
  /\ pure.items[1].title = "" /\ pure.items[1].link # ""
  /\ InWindow(pure.now, FirstPresent(pure.items[1]))
  /\ Len(pure.out) = 1
  /\ pure.out[1].url = pure.items[2].link

\* C17: the date of an entry is that of the first present of pubDate,
\* published, updated, dc:date; when none is present or the chosen one is not a
\* date, the entry is dated today (UTC+8) and is extracted.
C17_DatePriority ==
  (pure.op = "date" /\ pure.done) =>
    LET chosen == FirstPresent(pure.item)
        today == (pure.now + BeijingOffsetHours) \div HoursPerDay
    IN /\ chosen.kind = "ts" =>
            /\ (pure.out # <<>>) <=> InWindow(pure.now, chosen)
            /\ pure.out # <<>> =>
                 pure.out[1].date = (chosen.t + BeijingOffsetHours) \div HoursPerDay
       /\ chosen.kind # "ts" =>
            /\ Len(pure.out) = 1
            /\ pure.out[1].date = today

C17_Witness ==
  /\ pure.op = "date" /\ pure.done
  /\ pure.item.pubDate.kind = "none"
  /\ pure.item.published.kind = "bad"
  /\ pure.item.updated.kind = "ts"
  /\ Len(pure.out) = 1
  /\ pure.out[1].date = (pure.now + BeijingOffsetHours) \div HoursPerDay

Unreadable(f) == f.kind \in {"absent", "corrupt"}

\* C13: with the file absent or unparseable the run goes on with an empty
\* existing collection: every fetched article is new, and the collection
\* written holds the fetched articles, sorted, and nothing else.
C13_UnreadableStoreIsEmpty ==
  (Unreadable(fileAtStart) /\ pc \in {"summarize", "merge", "done", "fatal"}) =>
    /\ existing = <<>>
    /\ Len(newUnique) = Len(allNew)
    /\ \A i \in DOMAIN allNew :
         /\ newUnique[i].url = allNew[i].url
         /\ newUnique[i].date = allNew[i].date
         /\ newUnique[i].title = allNew[i].title
    /\ pc = "done" =>
         /\ exitCode = 0
         /\ file.kind = "json"
         /\ Len(Stored) = Len(allNew)
         /\ \A i \in DOMAIN allNew : \E j \in DOMAIN Stored : Stored[j] = newUnique[i]
         /\ \A i, j \in DOMAIN Stored : i < j => Stored[i].date >= Stored[j].date

C13_Witness ==
  /\ pc = "done"
  /\ runs = 2
  /\ fileAtStart.kind = "corrupt"
  /\ Len(Stored) = 2
  /\ Stored[1].date > Stored[2].date

\* C14: the process exits with 0 exactly when main reached its last line, with
\* the collection written, whatever the sources gave; a failure of mkdirSync
\* or writeFileSync makes it exit with 1 and main does not reach its last line.
C14_ExitCodes ==
  /\ Running => exitCode = -1
  /\ exitCode = 0 <=> pc = "done"
  /\ pc = "done" =>
       /\ writes = 1
       /\ file.kind = "json"
       /\ \A i \in DOMAIN newUnique : \E j \in DOMAIN Stored : Stored[j] = newUnique[i]
  /\ pc = "fatal" => exitCode = 1
  /\ (pc \in {"done", "fatal"} /\ file # fileAtStart /\ file.kind # "json") =>
       exitCode # 0

\* The run before completed although no source gave anything (it wrote the
\* empty collection); this run fails at the write.
C14_Witness ==
  /\ pc = "fatal"
  /\ exitCode = 1
  /\ runs = 2
  /\ fileAtStart = [kind |-> "json", articles |-> <<>>]
  /\ file = Corrupt
  /\ lastKind = "error"

\* C15: at most one request is outstanding at any moment, and it is the one
\* for the URL fetchRSS is at or for the article the summarizer loop is at:
\* the requests before it have settled and the next is not yet sent.
C15_OneRequestInFlight ==
  /\ Len(inFlight) <= 1
  /\ ~Running => inFlight = <<>>
  /\ inFlight # <<>> =>
       LET req == inFlight[1]
       IN \/ /\ req.op = "fetch"
             /\ pc = "fetch"
             /\ req.at = srcIdx
             /\ req.url = urls(SOURCES[srcIdx])[urlIdx]
             /\ \A i \in DOMAIN attempts :
                  attempts[i][1] < srcIdx
                    \/ (attempts[i][1] = srcIdx /\ attempts[i][2] # req.url)
          \/ /\ req.op = "summary"
             /\ pc = "summarize"
             /\ req.at = sumIdx
             /\ Len(returned) = Len(SOURCES)

\* every fetch has settled, the first summary has settled, the second is
\* outstanding
C15_Witness ==
  /\ Len(inFlight) = 1
  /\ inFlight[1].op = "summary"
  /\ inFlight[1].at = 2
  /\ Len(attempts) = 3
  /\ lastSum.sent

Occurrences(s, a) == Cardinality({i \in DOMAIN s : s[i] = a})

\* C16: aiSummarize is called, and a request sent, only for a fetched article
\* whose URL the file read by this run does not hold; every article read from
\* the file and kept by the retention filter is written as it was read, and
\* every written article with a URL of the file is one of the articles read.
C16_StoredArticlesUntouched ==
  /\ lastSum # NoSum => lastSum.url \notin existingUrls(ReadStore(fileAtStart))
  /\ \A i \in DOMAIN inFlight :
       inFlight[i].op = "summary" =>
         inFlight[i].url \notin existingUrls(ReadStore(fileAtStart))
  /\ pc = "done" =>
       /\ existing = ReadStore(fileAtStart)
       /\ \A i \in DOMAIN existing :
            existing[i].date >= (clock - RetentionDays * HoursPerDay) \div HoursPerDay =>
              Occurrences(Stored, existing[i]) = Occurrences(existing, existing[i])
       /\ \A j \in DOMAIN Stored :
            Stored[j].url \in existingUrls(existing) => Occurrences(existing, Stored[j]) > 0

\* a stored article with a rewritten summary is fetched again and carried
\* over, while the summarizer is called for a new one
C16_Witness ==
  /\ pc = "done"
  /\ runs = 2
  /\ lastSum # NoSum
  /\ \E i \in DOMAIN allNew : allNew[i].url \in existingUrls(existing)
  /\ \E j \in DOMAIN existing :
       /\ existing[j].summary.text = "ai"
       /\ Occurrences(Stored, existing[j]) = 1

\* C18: within a run no URL is requested twice; a source without alternate is
\* requested exactly once and a source with one at most twice; a source whose
\* requests all gave nothing returns nothing and is not requested again in
\* this run; the next run requests it again.
C18_NoRetryWithinRun ==
  \A s \in 1..Len(SOURCES) :
    LET as == AttemptsOf(s)
        configured == {SOURCES[s].rss, SOURCES[s].rssAlternate} \ {NoUrl}
    IN /\ \A i, j \in DOMAIN as : i # j => as[i][2] # as[j][2]
       /\ \A i \in DOMAIN as : as[i][2] \in configured
       /\ Len(as) <= Cardinality(configured)
       /\ s <= Len(returned) =>
            /\ Len(as) >= 1
            /\ (\A i \in DOMAIN as : as[i][3] = <<>>) =>
                 /\ returned[s] = <<>>
                 /\ Len(as) = Cardinality(configured)
       /\ (pc = "fetch" /\ s < srcIdx) => s <= Len(returned)
       /\ (pc = "fetch" /\ s > srcIdx) => as = <<>>

\* the run before ended with nothing from any source (it wrote the empty
\* collection); in this run the first source is requested again and answers
C18_Witness ==
  /\ runs = 2
  /\ fileAtStart = [kind |-> "json", articles |-> <<>>]
  /\ Len(returned) = 2
  /\ Len(AttemptsOf(1)) = 1
  /\ returned[1] # <<>>
  /\ Len(AttemptsOf(2)) = 2
  /\ returned[2] = <<>>

\* C19: every article of E dated today (UTC+8) minus 30 days or later is in
\* the merged collection, as often as in E, whatever the instant.
C19_RetentionComplete ==
  (pure.op = "merge" /\ pure.step >= 1) =>
    \A i \in DOMAIN pure.E :
      pure.E[i].date >= (pure.now + BeijingOffsetHours) \div HoursPerDay - RetentionDays =>
        Occurrences(pure.O1, pure.E[i]) >= Occurrences(pure.E, pure.E[i])

\* the merge runs when the UTC date equals the UTC+8 date and keeps an
\* article of E dated exactly 30 days before today
C19_Witness ==
  /\ pure.op = "merge" /\ pure.step >= 1
  /\ pure.now \div HoursPerDay = (pure.now + BeijingOffsetHours) \div HoursPerDay
  /\ \E i \in DOMAIN pure.E :
       /\ pure.E[i].date = (pure.now + BeijingOffsetHours) \div HoursPerDay - RetentionDays
       /\ Occurrences(pure.O1, pure.E[i]) = 1

\* a URL of N that E holds only in articles older than the cutoff
DroppedOnly(u) ==
  /\ \E i \in DOMAIN pure.N : pure.N[i].url = u
  /\ \E j \in DOMAIN pure.E : pure.E[j].url = u
  /\ \A j \in DOMAIN pure.E :
       pure.E[j].url = u =>
         pure.E[j].date < (pure.now - RetentionDays * HoursPerDay) \div HoursPerDay

\* C20: a fetched article whose URL is in E only in articles that the
\* retention filter drops is excluded by the same merge: the URL is absent
\* from the merged collection; merging the same N with that collection adds it.
C20_DedupBeforeRetention ==
  (pure.op = "merge" /\ pure.step >= 1) =>
    \A u \in Urls :
      DroppedOnly(u) =>
        /\ Count(pure.O1, u) = 0
        /\ pure.step = 2 => Count(pure.O2, u) = Count(pure.N, u)

C20_Witness ==
  /\ pure.op = "merge" /\ pure.step = 2
  /\ \E u \in Urls :
       /\ DroppedOnly(u)
       /\ Count(pure.O1, u) = 0
       /\ Count(pure.O2, u) = 1
  /\ Len(pure.O1) > 0

====
